---- MODULE Spec2Model ----
(***************************************************************************)
(* Model of server.js: the multi-host Calendly availability aggregator     *)
(* (GET /api/slots, getUnionSlots) and the booking assignor                *)
(* (POST /api/book, hostHasExactSlot), with the event-type resolution      *)
(* cache they share.                                                       *)
(*                                                                         *)
(* Time.  An instant is a number of milliseconds (Date.getTime()).  A      *)
(* timestamp string is a tuple of Width decimal digits followed by a       *)
(* format mark: 0 for the provider's rendering ("...:00.000000Z"), 1 for   *)
(* Date.toISOString() ("...:00.000Z").  Any other tuple does not parse     *)
(* (Invalid Date); <<>> is the empty / absent string.                      *)
(*                                                                         *)
(* Upstream.  A call through calendly() either throws (non-2xx) or yields  *)
(* the parsed body; a direct fetch yields a status or fails in transport.  *)
(* Response bodies, once a status is received, are readable.  The provider *)
(* renders every start_time in its one format.                             *)
(*                                                                         *)
(* Handlers are split at their awaits: one action is the code that runs    *)
(* between two awaits.                                                     *)
(*                                                                         *)
(* Specifications.  SpecBook, SpecSlots, SpecWindow and SpecJoin run one   *)
(* handler with the provider's answers left open; SpecConcurrent runs both *)
(* handlers together over the shared cache.  SpecListed and SpecRace       *)
(* follow the provider's side in the variable upstream: SpecListed answers *)
(* both handlers from one fixed availability, SpecRace lets the provider   *)
(* give a host's slot to the first reservation only.                       *)
(***************************************************************************)
EXTENDS Integers, Sequences, FiniteSets, Bags, TLC

\* ---------------------------------------------------------------- bounds
MaxTick == 1
MaxEntries == 2

\* ------------------------------------------------------ program constants
durationMinutes == 30
MinStartBufferMs == 60000
MaxWindowMs == 7 * 24 * 60 * 60 * 1000
FallbackStatuses == {403, 404, 422}

\* ------------------------------------------------------------------ time
Width == 10
NaN == 0 - 1
Missing == <<>>
Garbage == <<7>>
ProviderMark == 0
ISOMark == 1
MinuteMs == 60 * 1000
TickMs == 15 * MinuteMs

Pow10(k) == [i \in 0..Width |-> IF i = 0 THEN 1 ELSE IF i = 1 THEN 10
             ELSE IF i = 2 THEN 100 ELSE IF i = 3 THEN 1000 ELSE IF i = 4 THEN 10000
             ELSE IF i = 5 THEN 100000 ELSE IF i = 6 THEN 1000000
             ELSE IF i = 7 THEN 10000000 ELSE IF i = 8 THEN 100000000
             ELSE IF i = 9 THEN 1000000000 ELSE 0][k]

Digits(ms) == [k \in 1..Width |-> (ms \div Pow10(Width - k)) % 10]

\* new Date(s).getTime(): the instant a timestamp string denotes, NaN if none
getTime(s) ==
    IF Len(s) = Width + 1 /\ s[Width + 1] \in {ProviderMark, ISOMark}
    THEN LET v[k \in 0..Width] == IF k = 0 THEN 0 ELSE v[k - 1] * 10 + s[k]
         IN v[Width]
    ELSE NaN

\* Date.prototype.toISOString() of a valid instant
toISOString(ms) == Digits(ms) \o <<ISOMark>>

\* the provider's rendering of an instant
ProviderString(ms) == Digits(ms) \o <<ProviderMark>>

isNaN(ms) == ms = NaN

\* toISO / normalizeISO throw a RangeError on an Invalid Date
toISOThrows(isoish) == isNaN(getTime(isoish))
toISO(isoish) == toISOString(getTime(isoish))

addMinutesISOThrows(iso) == isNaN(getTime(iso))
addMinutesISO(iso, minutes) == toISOString(getTime(iso) + minutes * 60 * 1000)

sameInstant(a, b) ==
    /\ ~isNaN(getTime(a))
    /\ ~isNaN(getTime(b))
    /\ getTime(a) = getTime(b)

\* String.prototype.localeCompare on timestamp strings: the first differing
\* position decides (digits and the two format marks collate in code order)
localeCompare(a, b) ==
    LET n == IF Len(a) < Len(b) THEN Len(a) ELSE Len(b)
        diff == {k \in 1..n : a[k] # b[k]}
    IN IF diff = {}
       THEN (IF Len(a) < Len(b) THEN 0 - 1 ELSE IF Len(a) > Len(b) THEN 1 ELSE 0)
       ELSE LET k == CHOOSE i \in diff : \A j \in diff : i <= j
            IN IF a[k] < b[k] THEN 0 - 1 ELSE 1

Tick(k) == k * TickMs
TimeGrid == {Tick(k) : k \in 0..MaxTick}

\* ------------------------------------------------------------ host roster
HostIds == 1..2
Weights == {5, 10}
PatEnv(id) == <<"PAT", id>>
SchedulingUrl(id) == <<"https://calendly.com", id>>
EventTypeUri(id) == <<"https://api.calendly.com/event_types", id>>
UserUri(id) == <<"https://api.calendly.com/users", id>>
DisplayName(id) == <<"Host", id>>

\* hosts.json: one entry per host, in roster order
Host(id, w) ==
    [host_id |-> id, display_name |-> DisplayName(id), pat_env |-> PatEnv(id),
     event_type_uri |-> SchedulingUrl(id), priority_weight |-> w]
Rosters == {[id \in HostIds |-> Host(id, w[id])] : w \in [HostIds -> Weights]}

\* ---------------------------------------------------------------- upstream
\* what calendly() gives its caller: it threw (the response was not 2xx), or
\* the parsed body
Threw == [threw |-> TRUE, json |-> <<>>]
Json(body) == [threw |-> FALSE, json |-> body]
\* a direct fetch that fails in transport has no status
NetErr == 0 - 1

\* GET /users/me through calendly(): throws, or a body with or without resource.uri
MeResponses(h) == {Threw, Json(Missing), Json(UserUri(h.host_id))}

\* GET /event_types through calendly(): throws, or a body whose collection lists
\* the user's event types
OtherEventType == [scheduling_url |-> SchedulingUrl(0), uri |-> EventTypeUri(0)]
OwnEventType(h) == [scheduling_url |-> h.event_type_uri, uri |-> EventTypeUri(h.host_id)]
EventTypeLists(h) ==
    {<<>>, <<OtherEventType>>, <<OwnEventType(h)>>, <<OtherEventType, OwnEventType(h)>>}
ListResponses(h) == {Threw} \cup {Json(c) : c \in EventTypeLists(h)}

\* GET /event_type_available_times: the entries of a collection.  The provider
\* renders start_time in its own format; every entry of one answer either has no
\* end_time, or ends the event type's own duration after its start.
NoEndTime == 0
EventDurations == {NoEndTime, 15 * MinuteMs, 30 * MinuteMs}
ProviderEntry(s, d) ==
    [start_time |-> ProviderString(s),
     end_time |-> IF d = NoEndTime THEN Missing ELSE ProviderString(s + d)]
SeqsUpTo(S, n) == UNION {[1..k -> S] : k \in 0..n}
Collections ==
    {[k \in 1..Len(starts) |-> ProviderEntry(starts[k], d)] :
        starts \in SeqsUpTo(TimeGrid, MaxEntries), d \in EventDurations}
AvailResponses == {Threw} \cup {Json(c) : c \in Collections}

\* statuses a direct fetch can come back with
Statuses == {201, 400, 403, 404, 409, 422, 500}
okBelow500(status) == status >= 200 /\ status <= 499
ok(status) == status >= 200 /\ status <= 299

Call(api, h, arg) == [api |-> api, token |-> h.pat_env, arg |-> arg]
CallsTo(bag, api) == {c \in BagToSet(bag) : c.api = api}
CountCalls(bag, api) ==
    LET S == CallsTo(bag, api)
        sum[T \in SUBSET S] ==
            IF T = {} THEN 0
            ELSE LET c == CHOOSE x \in T : TRUE IN CopiesIn(c, bag) + sum[T \ {c}]
    IN sum[S]

\* ------------------------------------------------------------------- state
VARIABLES
    hosts,                  \* the roster read from hosts.json
    env,                    \* names of the credential variables set in process.env
    EVENT_TYPE_URI_CACHE,   \* Map host_id -> API event type URI
    calls,                  \* upstream requests issued by the running request
    bpc, breq, bk, bres,    \* POST /api/book: position, body, locals, response
    spc, sreq, sk, sres,    \* GET /api/slots: position, query, locals, response
    tasks,                  \* getUnionSlots: the per-host promises
    upstream                \* what the provider holds, where a specification follows it

bookVars == <<bpc, breq, bk, bres>>
slotsVars == <<spc, sreq, sk, sres, tasks>>
vars == <<hosts, env, EVENT_TYPE_URI_CACHE, calls, bookVars, slotsVars, upstream>>

NoResponse == [status |-> 0, kind |-> "none", host_assigned |-> Missing]
ErrorResponse(status) == [status |-> status, kind |-> "error", host_assigned |-> Missing]

NoJson == Json(<<>>)
NoRequest == [start_time |-> Missing, end_time |-> Missing, name |-> FALSE, email |-> FALSE]
NoLocals ==
    [startISO |-> Missing, endISO |-> Missing, i |-> 0, eligible |-> <<>>,
     ret |-> "none", et |-> Missing, j |-> NoJson, hasExact |-> "none",
     chosen |-> 0, r |-> 0, linkRes |-> 0]

NoQuery == [start |-> Missing, end |-> Missing, timezone |-> "", now |-> 0]
NoWindow == [start |-> Missing, end |-> Missing, timezone |-> ""]
NoSlotsResponse == [status |-> 0, slots |-> <<>>, meta |-> NoWindow]
IdleTask == [pc |-> "idle", et |-> Missing, data |-> <<>>, slots |-> <<>>]

\* The provider's side of one slot per host: the availability it lists for the
\* host, who holds the host's slot, and a second booking request for that slot
\* (idle, verified: it saw the slot listed, confirmed or rejected by the
\* provider).  Specifications that leave the provider's answers open keep
\* NoUpstream throughout.
NoRival == [pc |-> "idle", host |-> 0]
NoUpstream ==
    [avail |-> [id \in HostIds |-> <<>>], holder |-> [id \in HostIds |-> "none"],
     rival |-> NoRival]

InitProgram ==
    /\ spc = "idle"
    /\ sreq = NoQuery
    /\ sk = NoWindow
    /\ sres = NoSlotsResponse
    /\ tasks = [id \in HostIds |-> IdleTask]
    /\ hosts \in Rosters
    /\ env \in SUBSET {PatEnv(id) : id \in HostIds}
    /\ EVENT_TYPE_URI_CACHE = <<>>
    /\ calls = EmptyBag
    /\ bpc = "idle"
    /\ breq = NoRequest
    /\ bk = NoLocals
    /\ bres = NoResponse

Init == InitProgram /\ upstream = NoUpstream

\* ------------------------------------------------- Map operations on the cache
has(map, k) == k \in DOMAIN map
get(map, k) == map[k]
setReplacingAll(map, k, v) == [x \in {k} |-> v]
set(map, k, v) == [x \in DOMAIN map \cup {k} |-> IF x = k THEN v ELSE map[x]]

\* ---------------------------------------- resolveEventTypeApiUriForHost(host)
\* the part that runs before the first await
resolveSync(cache, h) ==
    IF has(cache, h.host_id) THEN "hit"
    ELSE IF h.pat_env \notin env THEN "throw"
    ELSE "fetch"

\* users/me answered: throws unless the body carries resource.uri
meThrows(me) == me.threw \/ me.json = Missing

findMatchOrFirst(collection, h) ==
    LET hit == {k \in 1..Len(collection) : collection[k].scheduling_url = h.event_type_uri}
    IN IF collection = <<>> THEN Missing
       ELSE IF hit = {} THEN collection[1].uri
       ELSE collection[CHOOSE k \in hit : \A m \in hit : k <= m].uri
\* (list.collection || []).find(et => et.scheduling_url === host.event_type_uri)
findMatch(collection, h) ==
    LET hit == {k \in 1..Len(collection) : collection[k].scheduling_url = h.event_type_uri}
    IN IF hit = {} THEN Missing
       ELSE collection[CHOOSE k \in hit : \A m \in hit : k <= m].uri

\* ------------------------------------------------ Array.prototype.sort (stable)
StableSort(s, cmp(_, _)) ==
    LET ins(sorted, x) ==
            LET after == {p \in 1..Len(sorted) : cmp(sorted[p], x) > 0}
                p == IF after = {} THEN Len(sorted) + 1
                     ELSE CHOOSE q \in after : \A m \in after : q <= m
            IN SubSeq(sorted, 1, p - 1) \o <<x>> \o SubSeq(sorted, p, Len(sorted))
        f[k \in 0..Len(s)] == IF k = 0 THEN <<>> ELSE ins(f[k - 1], s[k])
    IN f[Len(s)]

\* ------------------------------------------------------------ POST /api/book
\* the collection scanned by hostHasExactSlot
hasExactEntryStartOnly(collection, startISO, endISO) ==
    \E k \in 1..Len(collection) : sameInstant(collection[k].start_time, startISO)
hasExactEntry(collection, startISO, endISO) ==
    \E k \in 1..Len(collection) :
        /\ sameInstant(collection[k].start_time, startISO)
        /\ sameInstant(collection[k].end_time, endISO)

byPriorityAsc(a, b) == a.priority_weight - b.priority_weight
byPriorityDescOrEqual(a, b) == IF b.priority_weight >= a.priority_weight THEN 1 ELSE 0 - 1
byPriorityDesc(a, b) == b.priority_weight - a.priority_weight
sortEligibleUnsorted(eligible) == eligible
sortEligible(eligible) == StableSort(eligible, byPriorityDesc)

isFallbackStatusNarrow(status) == status \in {403, 404}
isFallbackStatusWide(status) == status >= 400 /\ status <= 499
isFallbackStatus(status) == status \in FallbackStatuses

Respond(res) == /\ bres' = res
                /\ bpc' = "done"

\* an exception reaching the handler's catch
Fail500 == Respond(ErrorResponse(500))

\* where resolveEventTypeApiUriForHost returns to
AfterResolve(ret) == IF ret = "verify" THEN "have_et" ELSE "push"

BookRequests ==
    [start_time : {Missing, Garbage, ProviderString(Tick(1)), toISOString(Tick(1))},
     end_time : {Missing, Garbage, toISOString(Tick(1) + durationMinutes * MinuteMs),
                 ProviderString(Tick(1) + TickMs)},
     name : BOOLEAN, email : BOOLEAN]

\* !start_time || !end_time || !invitee?.email || !invitee?.name
missingFieldsTimesOnly(req) == req.start_time = Missing \/ req.end_time = Missing
missingFields(req) ==
    req.start_time = Missing \/ req.end_time = Missing \/ ~req.email \/ ~req.name

BookRequest(req) ==
    /\ bpc = "idle"
    /\ breq' = req
    /\ calls' = EmptyBag
    /\ IF missingFields(req)
       THEN /\ Respond(ErrorResponse(400))
            /\ bk' = NoLocals
       ELSE IF toISOThrows(req.start_time) \/ toISOThrows(req.end_time)
       THEN /\ Fail500
            /\ bk' = NoLocals
       ELSE /\ bk' = [NoLocals EXCEPT !.startISO = toISO(req.start_time),
                                      !.endISO = toISO(req.end_time),
                                      !.i = 1]
            /\ bpc' = "scan"
            /\ bres' = NoResponse
    /\ UNCHANGED <<hosts, env, upstream, EVENT_TYPE_URI_CACHE, slotsVars>>

\* loop head of the eligibility scan; past the last host, the choice and the
\* direct reservation
BookScan ==
    /\ bpc = "scan"
    /\ IF bk.i <= Len(hosts)
       THEN /\ bk' = [bk EXCEPT !.ret = "verify", !.hasExact = "none"]
            /\ bpc' = "resolve"
            /\ UNCHANGED <<calls, bres>>
       ELSE IF Len(bk.eligible) = 0
       THEN /\ Respond(ErrorResponse(409))
            /\ UNCHANGED <<calls, bk>>
       ELSE LET sorted == sortEligible(bk.eligible)
                chosen == sorted[1]
            IN /\ bk' = [bk EXCEPT !.eligible = sorted, !.chosen = chosen.host_id]
               /\ calls' = calls (+) SetToBag({Call("event_invitees", chosen,
                                        <<chosen.et, bk.startISO, bk.endISO>>)})
               /\ bpc' = "await_invitee"
               /\ UNCHANGED bres
    /\ UNCHANGED <<hosts, env, upstream, EVENT_TYPE_URI_CACHE, breq, slotsVars>>

\* resolveEventTypeApiUriForHost up to its first await, called from
\* hostHasExactSlot (ret = "verify") or from the handler (ret = "push")
BookResolve ==
    /\ bpc = "resolve"
    /\ LET h == hosts[bk.i]
           how == resolveSync(EVENT_TYPE_URI_CACHE, h)
       IN IF how = "hit"
          THEN /\ bk' = [bk EXCEPT !.et = get(EVENT_TYPE_URI_CACHE, h.host_id)]
               /\ bpc' = AfterResolve(bk.ret)
               /\ UNCHANGED <<calls, bres>>
          ELSE IF how = "throw"
          THEN /\ bk' = [bk EXCEPT !.hasExact = IF bk.ret = "verify" THEN "throw" ELSE @]
               /\ Fail500
               /\ UNCHANGED calls
          ELSE /\ calls' = calls (+) SetToBag({Call("users/me", h, Missing)})
               /\ bpc' = "await_me"
               /\ UNCHANGED <<bk, bres>>
    /\ UNCHANGED <<hosts, env, upstream, EVENT_TYPE_URI_CACHE, breq, slotsVars>>

BookMe ==
    /\ bpc = "await_me"
    /\ \E me \in MeResponses(hosts[bk.i]) :
       LET h == hosts[bk.i]
       IN IF meThrows(me)
          THEN /\ bk' = [bk EXCEPT !.hasExact = IF bk.ret = "verify" THEN "throw" ELSE @]
               /\ Fail500
               /\ UNCHANGED calls
          ELSE /\ calls' = calls (+) SetToBag({Call("event_types", h, me.json)})
               /\ bpc' = "await_list"
               /\ UNCHANGED <<bk, bres>>
    /\ UNCHANGED <<hosts, env, upstream, EVENT_TYPE_URI_CACHE, breq, slotsVars>>

BookList ==
    /\ bpc = "await_list"
    /\ \E list \in ListResponses(hosts[bk.i]) :
       LET h == hosts[bk.i]
           match == IF list.threw THEN Missing ELSE findMatch(list.json, h)
       IN IF match = Missing
          THEN /\ bk' = [bk EXCEPT !.hasExact = IF bk.ret = "verify" THEN "throw" ELSE @]
               /\ Fail500
               /\ UNCHANGED EVENT_TYPE_URI_CACHE
          ELSE /\ EVENT_TYPE_URI_CACHE' = set(EVENT_TYPE_URI_CACHE, h.host_id, match)
               /\ bk' = [bk EXCEPT !.et = match]
               /\ bpc' = AfterResolve(bk.ret)
               /\ UNCHANGED bres
    /\ UNCHANGED <<hosts, env, upstream, calls, breq, slotsVars>>

\* hostHasExactSlot after the resolution: the availability query is issued
BookQuery ==
    /\ bpc = "have_et"
    /\ calls' = calls (+) SetToBag({Call("event_type_available_times", hosts[bk.i],
                                        <<bk.et, bk.startISO, bk.endISO>>)})
    /\ bpc' = "await_avail"
    /\ UNCHANGED <<hosts, env, upstream, EVENT_TYPE_URI_CACHE, breq, bk, bres, slotsVars>>

\* hostHasExactSlot: the availability query answered (try / catch)
BookAvail(j) ==
    /\ bpc = "await_avail"
    /\ IF j.threw
       THEN bk' = [bk EXCEPT !.j = j, !.hasExact = "false"]
       ELSE bk' = [bk EXCEPT !.j = j,
                             !.hasExact = IF hasExactEntry(j.json, bk.startISO, bk.endISO)
                                          THEN "true" ELSE "false"]
    /\ bpc' = "verified"
    /\ UNCHANGED <<hosts, env, upstream, EVENT_TYPE_URI_CACHE, calls, breq, bres, slotsVars>>

\* the handler's test of hostHasExactSlot's answer
BookVerified ==
    /\ bpc = "verified"
    /\ IF bk.hasExact = "true"
       THEN /\ bk' = [bk EXCEPT !.ret = "push"]
            /\ bpc' = "resolve"
       ELSE /\ bk' = [bk EXCEPT !.j = NoJson, !.i = @ + 1]
            /\ bpc' = "scan"
    /\ UNCHANGED <<hosts, env, upstream, EVENT_TYPE_URI_CACHE, calls, breq, bres, slotsVars>>

BookPush ==
    /\ bpc = "push"
    /\ LET h == hosts[bk.i]
           e == [host_id |-> h.host_id, display_name |-> h.display_name,
                 pat_env |-> h.pat_env, event_type_uri |-> h.event_type_uri,
                 priority_weight |-> h.priority_weight, et |-> bk.et]
       IN bk' = [bk EXCEPT !.eligible = Append(@, e), !.i = @ + 1, !.j = NoJson,
                           !.hasExact = "none"]
    /\ bpc' = "scan"
    /\ UNCHANGED <<hosts, env, upstream, EVENT_TYPE_URI_CACHE, calls, breq, bres, slotsVars>>

\* POST /event_invitees answered
InviteeAnswered(r) ==
    /\ bpc = "await_invitee"
    /\ LET chosen == bk.eligible[1]
       IN IF r = NetErr
          THEN /\ Fail500
               /\ UNCHANGED <<calls, bk>>
          ELSE IF ok(r)
          THEN /\ Respond([status |-> 200, kind |-> "booking",
                           host_assigned |-> chosen.display_name])
               /\ bk' = [bk EXCEPT !.r = r]
               /\ UNCHANGED calls
          ELSE IF isFallbackStatus(r)
          THEN /\ calls' = calls (+) SetToBag({Call("scheduling_links", chosen,
                                                    <<chosen.et, "EventType", 1>>)})
               /\ bk' = [bk EXCEPT !.r = r]
               /\ bpc' = "await_link"
               /\ UNCHANGED bres
          ELSE /\ Respond(ErrorResponse(502))
               /\ bk' = [bk EXCEPT !.r = r]
               /\ UNCHANGED calls
    /\ UNCHANGED <<hosts, env, EVENT_TYPE_URI_CACHE, breq, slotsVars>>

BookInvitee(r) == InviteeAnswered(r) /\ UNCHANGED upstream

\* POST /scheduling_links answered
BookLink(linkRes) ==
    /\ bpc = "await_link"
    /\ LET chosen == bk.eligible[1]
       IN IF linkRes = NetErr
          THEN /\ Fail500
               /\ UNCHANGED bk
          ELSE IF ~ok(linkRes)
          THEN /\ Respond(ErrorResponse(502))
               /\ bk' = [bk EXCEPT !.linkRes = linkRes]
          ELSE /\ Respond([status |-> 200, kind |-> "redirect",
                           host_assigned |-> chosen.display_name])
               /\ bk' = [bk EXCEPT !.linkRes = linkRes]
    /\ UNCHANGED <<hosts, env, upstream, EVENT_TYPE_URI_CACHE, calls, breq, slotsVars>>

\* the response is out and the request's locals are gone; the cache stays
BookClose ==
    /\ bpc = "done"
    /\ bpc' = "idle"
    /\ breq' = NoRequest
    /\ bk' = NoLocals
    /\ bres' = NoResponse
    /\ calls' = EmptyBag
    /\ UNCHANGED <<hosts, env, upstream, EVENT_TYPE_URI_CACHE, slotsVars>>

NextBook ==
    \/ \E req \in BookRequests : BookRequest(req)
    \/ BookClose
    \/ BookScan
    \/ BookResolve
    \/ BookMe
    \/ BookList
    \/ BookQuery
    \/ \E j \in AvailResponses : BookAvail(j)
    \/ BookVerified
    \/ BookPush
    \/ \E r \in {NetErr} \cup Statuses : BookInvitee(r)
    \/ \E linkRes \in {NetErr} \cup Statuses : BookLink(linkRes)

SpecBook == Init /\ [][NextBook]_vars

\* ------------------------------------------------------------ GET /api/slots
\* timezone.toLowerCase()
toLowerCase(tz) == IF tz \in {"Asia/Calcutta", "asia/calcutta"} THEN "asia/calcutta" ELSE tz
normalizeTimezone(tz) ==
    IF tz = "" \/ toLowerCase(tz) = "asia/calcutta" THEN "Asia/Kolkata" ELSE tz

\* the clamp of the window, on instants
minStart(now) == now + MinStartBufferMs
clampedStartUnclamped(startDate, now) == startDate
clampedStart(startDate, now) == IF startDate < minStart(now) THEN minStart(now) ELSE startDate
maxEnd(cStart) == cStart + MaxWindowMs
clampedEnd(endDate, cStart) == IF endDate > maxEnd(cStart) THEN maxEnd(cStart) ELSE endDate

windowInvalidStrict(q) ==
    \/ isNaN(getTime(q.start))
    \/ isNaN(getTime(q.end))
    \/ clampedEnd(getTime(q.end), clampedStart(getTime(q.start), q.now))
         < clampedStart(getTime(q.start), q.now)
\* the window handed to getUnionSlots, or no window when the handler answers 400
windowInvalid(q) ==
    \/ isNaN(getTime(q.start))
    \/ isNaN(getTime(q.end))
    \/ clampedEnd(getTime(q.end), clampedStart(getTime(q.start), q.now))
         <= clampedStart(getTime(q.start), q.now)
window(q) ==
    LET cs == clampedStart(getTime(q.start), q.now)
    IN [start |-> toISOString(cs),
        end |-> toISOString(clampedEnd(getTime(q.end), cs)),
        timezone |-> normalizeTimezone(q.timezone)]

\* ------------------------------------------------------------- getUnionSlots
\* one host's async callback up to its first await
taskStart(cache, h) ==
    IF h.pat_env \notin env THEN [IdleTask EXCEPT !.pc = "rejected"]
    ELSE IF resolveSync(cache, h) = "hit"
    THEN [IdleTask EXCEPT !.pc = "have_et", !.et = get(cache, h.host_id)]
    ELSE IF resolveSync(cache, h) = "throw"
    THEN [IdleTask EXCEPT !.pc = "rejected"]
    ELSE [IdleTask EXCEPT !.pc = "await_me"]

\* the start_time of every entry of an answer, in the answer's order
startTimes(collection) == [k \in 1..Len(collection) |-> collection[k].start_time]

\* (data.collection || []).map(s => ({ start_time, end_time, host_id, host_name }))
mapSlots(collection, h) ==
    [k \in 1..Len(collection) |->
        [start_time |-> collection[k].start_time,
         end_time |-> addMinutesISO(collection[k].start_time, durationMinutes),
         host_id |-> h.host_id,
         host_name |-> h.display_name]]
mapThrows(collection) ==
    \E k \in 1..Len(collection) : addMinutesISOThrows(collection[k].start_time)

\* `${s.start_time}__${s.end_time}`
slotKey(s) == <<s.start_time, s.end_time>>

bucketAddNoLookup(bucket, s) ==
    Append(bucket, [start_time |-> s.start_time, end_time |-> s.end_time,
                    hosts |-> <<[id |-> s.host_id, name |-> s.host_name]>>])
\* one pass of the inner loop: bucket.get(key) || { ..., hosts: [] }, push, set.
\* The bucket is a Map: its values keep the order in which keys were first set.
bucketAdd(bucket, s) ==
    LET at == {k \in 1..Len(bucket) : slotKey(bucket[k]) = slotKey(s)}
        who == [id |-> s.host_id, name |-> s.host_name]
    IN IF at = {}
       THEN Append(bucket, [start_time |-> s.start_time, end_time |-> s.end_time,
                            hosts |-> <<who>>])
       ELSE LET k == CHOOSE x \in at : TRUE
            IN [bucket EXCEPT ![k].hosts = Append(@, who)]

addSlots(bucket, slots) ==
    LET f[k \in 0..Len(slots)] == IF k = 0 THEN bucket ELSE bucketAdd(f[k - 1], slots[k])
    IN f[Len(slots)]

mergeResultsUntilRejected(results) ==
    LET f[k \in 0..Len(results)] ==
            IF k = 0 THEN <<>>
            ELSE IF \E m \in 1..k : results[m].status # "fulfilled" THEN f[k - 1]
            ELSE addSlots(f[k - 1], results[k].slots)
    IN f[Len(results)]
\* the loop over the settled results: a rejected one is skipped
mergeResults(results) ==
    LET f[k \in 0..Len(results)] ==
            IF k = 0 THEN <<>>
            ELSE IF results[k].status # "fulfilled" THEN f[k - 1]
            ELSE addSlots(f[k - 1], results[k].slots)
    IN f[Len(results)]

byStartTimeDesc(a, b) == localeCompare(b.start_time, a.start_time)
byStartTime(a, b) == localeCompare(a.start_time, b.start_time)
sortSlots(values) == StableSort(values, byStartTime)

settled(t) == t.pc \in {"fulfilled", "rejected"}
joinReadyFailFast(ts) ==
    \/ \A id \in HostIds : settled(ts[id])
    \/ \E id \in HostIds : ts[id].pc = "rejected"
\* Promise.allSettled resolves once every promise has settled either way
joinReady(ts) == \A id \in HostIds : settled(ts[id])
\* Promise.allSettled: one result per host, in roster order
allSettledResults ==
    [k \in 1..Len(hosts) |->
        [status |-> tasks[hosts[k].host_id].pc, slots |-> tasks[hosts[k].host_id].slots]]

\* queries: the clock's reading, and bounds given as offsets from it
Nows == {60 * MinuteMs, 60 * MinuteMs + 1}
Queries(starts, ends, zones) ==
    {[start |-> st, end |-> en, timezone |-> tz, now |-> now] :
        st \in {Garbage} \cup {toISOString(now + d) : now \in Nows, d \in starts},
        en \in {Missing} \cup {ProviderString(now + d) : now \in Nows, d \in ends},
        tz \in zones, now \in Nows}
SlotQueries ==
    {q \in Queries({0}, {0, 2 * TickMs}, {""}) : q.now = 60 * MinuteMs}
WindowQueries ==
    Queries({0 - MinStartBufferMs, MinStartBufferMs - 1, MinStartBufferMs,
             MinStartBufferMs + 1, TickMs},
            {0, MinStartBufferMs, MinStartBufferMs + 1, 2 * TickMs,
             MinStartBufferMs + MaxWindowMs, MinStartBufferMs + MaxWindowMs + 1,
             TickMs + MaxWindowMs, TickMs + MaxWindowMs + 1, 2 * MaxWindowMs},
            {"", "Asia/Calcutta", "asia/calcutta", "UTC"})

\* the handler up to the first await inside getUnionSlots: the clamp, then every
\* host's callback started in roster order
SlotsRequest(q) ==
    /\ spc = "idle"
    /\ sreq' = q
    /\ IF windowInvalid(q)
       THEN /\ sres' = [status |-> 400, slots |-> <<>>, meta |-> NoWindow]
            /\ sk' = NoWindow
            /\ spc' = "done"
            /\ tasks' = [id \in HostIds |-> IdleTask]
            /\ calls' = EmptyBag
       ELSE /\ sk' = window(q)
            /\ sres' = NoSlotsResponse
            /\ spc' = "await_all"
            /\ tasks' = [id \in HostIds |-> taskStart(EVENT_TYPE_URI_CACHE, hosts[id])]
            /\ calls' = SetToBag({Call("users/me", hosts[id], Missing) :
                            id \in {x \in HostIds :
                                taskStart(EVENT_TYPE_URI_CACHE, hosts[x]).pc = "await_me"}})
    /\ UNCHANGED <<hosts, env, upstream, EVENT_TYPE_URI_CACHE, bookVars>>

TaskMe(id) ==
    /\ tasks[id].pc = "await_me"
    /\ \E me \in MeResponses(hosts[id]) :
        IF meThrows(me)
        THEN /\ tasks' = [tasks EXCEPT ![id].pc = "rejected"]
             /\ UNCHANGED calls
        ELSE /\ tasks' = [tasks EXCEPT ![id].pc = "await_list"]
             /\ calls' = calls (+) SetToBag({Call("event_types", hosts[id], me.json)})
    /\ UNCHANGED <<hosts, env, upstream, EVENT_TYPE_URI_CACHE, bookVars, spc, sreq, sk, sres>>

TaskList(id) ==
    /\ tasks[id].pc = "await_list"
    /\ \E list \in ListResponses(hosts[id]) :
        LET match == IF list.threw THEN Missing ELSE findMatch(list.json, hosts[id])
        IN IF match = Missing
           THEN /\ tasks' = [tasks EXCEPT ![id].pc = "rejected"]
                /\ UNCHANGED EVENT_TYPE_URI_CACHE
           ELSE /\ EVENT_TYPE_URI_CACHE' = set(EVENT_TYPE_URI_CACHE, id, match)
                /\ tasks' = [tasks EXCEPT ![id].pc = "have_et", ![id].et = match]
    /\ UNCHANGED <<hosts, env, upstream, calls, bookVars, spc, sreq, sk, sres>>

TaskQuery(id) ==
    /\ tasks[id].pc = "have_et"
    /\ calls' = calls (+) SetToBag({Call("event_type_available_times", hosts[id],
                                        <<tasks[id].et, sk.start, sk.end, sk.timezone>>)})
    /\ tasks' = [tasks EXCEPT ![id].pc = "await_avail"]
    /\ UNCHANGED <<hosts, env, upstream, EVENT_TYPE_URI_CACHE, bookVars, spc, sreq, sk, sres>>

\* the availability query answered with data
TaskAvailed(id, data) ==
    /\ tasks[id].pc = "await_avail"
    /\ IF data.threw \/ mapThrows(data.json)
       THEN tasks' = [tasks EXCEPT ![id].pc = "rejected"]
       ELSE tasks' = [tasks EXCEPT ![id].pc = "fulfilled",
                                   ![id].data = startTimes(data.json),
                                   ![id].slots = mapSlots(data.json, hosts[id])]
    /\ UNCHANGED <<hosts, env, upstream, EVENT_TYPE_URI_CACHE, calls, bookVars, spc, sreq, sk, sres>>

TaskAvail(id) == \E data \in AvailResponses : TaskAvailed(id, data)

\* every promise has settled: the merge, the sort and the response
SlotsJoin ==
    /\ spc = "await_all"
    /\ joinReady(tasks)
    /\ sres' = [status |-> 200, slots |-> sortSlots(mergeResults(allSettledResults)),
                meta |-> sk]
    /\ spc' = "done"
    /\ UNCHANGED <<hosts, env, upstream, EVENT_TYPE_URI_CACHE, calls, bookVars, sreq, sk, tasks>>

\* the response is out and the request's locals are gone; the cache stays
SlotsClose ==
    /\ spc = "done"
    /\ spc' = "idle"
    /\ sreq' = NoQuery
    /\ sk' = NoWindow
    /\ sres' = NoSlotsResponse
    /\ tasks' = [id \in HostIds |-> IdleTask]
    /\ calls' = EmptyBag
    /\ UNCHANGED <<hosts, env, upstream, EVENT_TYPE_URI_CACHE, bookVars>>

NextSlots ==
    \/ \E q \in SlotQueries : SlotsRequest(q)
    \/ SlotsClose
    \/ \E id \in HostIds : TaskMe(id)
    \/ \E id \in HostIds : TaskList(id)
    \/ \E id \in HostIds : TaskQuery(id)
    \/ \E id \in HostIds : TaskAvail(id)
    \/ SlotsJoin

\* getUnionSlots does not read priority_weight: one roster stands for all
InitSlots == Init /\ \A k \in HostIds : hosts[k].priority_weight = 10

SpecSlots == InitSlots /\ [][NextSlots]_vars

\* the fan-out and the join on their own: one query, a few availability
\* answers, a provider that answers every request and an event loop that runs
\* every continuation that is ready
JoinQueries == {q \in SlotQueries : ~windowInvalid(q)}
JoinAvail == {Threw, Json(<<>>), Json(<<ProviderEntry(Tick(1), NoEndTime)>>)}
TaskStep ==
    \E id \in HostIds :
        \/ TaskMe(id)
        \/ TaskList(id)
        \/ TaskQuery(id)
        \/ \E data \in JoinAvail : TaskAvailed(id, data)
NextJoin ==
    \/ \E q \in JoinQueries : SlotsRequest(q)
    \/ TaskStep
    \/ SlotsJoin
    \/ SlotsClose
SpecJoin == InitSlots /\ [][NextJoin]_vars /\ WF_vars(TaskStep) /\ WF_vars(SlotsJoin)

\* the window normalizer on its own: the handler over a wide range of queries,
\* with an upstream that does not answer
NextWindow ==
    \/ \E q \in WindowQueries : SlotsRequest(q)
    \/ SlotsJoin
    \/ SlotsClose

SpecWindow == InitSlots /\ [][NextWindow]_vars

\* ------------------------------------- both handlers in flight at the same time
\* One process serves both routes: a booking request and an aggregation can be
\* between awaits together, each resolving the same hosts through the shared
\* cache.  Every credential is set; calls then logs both requests.
ConcurrentRequest ==
    [start_time |-> ProviderString(Tick(1)),
     end_time |-> toISOString(Tick(1) + durationMinutes * MinuteMs),
     name |-> TRUE, email |-> TRUE]
ConcurrentAvail == {Threw, Json(<<ProviderEntry(Tick(1), 30 * MinuteMs)>>)}
InitConcurrent == InitSlots /\ env = {PatEnv(id) : id \in HostIds}
NextConcurrent ==
    \/ BookRequest(ConcurrentRequest)
    \/ BookClose
    \/ BookScan
    \/ BookResolve
    \/ BookMe
    \/ BookList
    \/ BookQuery
    \/ \E j \in ConcurrentAvail : BookAvail(j)
    \/ BookVerified
    \/ BookPush
    \/ \E r \in {201, 500} : BookInvitee(r)
    \/ \E q \in JoinQueries : SlotsRequest(q)
    \/ \E id \in HostIds : TaskMe(id)
    \/ \E id \in HostIds : TaskList(id)
    \/ \E id \in HostIds : TaskQuery(id)
    \/ \E id \in HostIds : \E data \in ConcurrentAvail : TaskAvailed(id, data)
    \/ SlotsJoin
    \/ SlotsClose
SpecConcurrent == InitConcurrent /\ [][NextConcurrent]_vars

\* --------------------------------- a listed slot taken to the booking endpoint
\* The provider lists a fixed availability for each host and answers both the
\* aggregation's query and the booking's verification from it; the client books
\* a slot exactly as the aggregation's response shows it.
ListedStart == 5 * TickMs
ListedCollections ==
    {<<>>} \cup {<<ProviderEntry(ListedStart, d)>> : d \in EventDurations}
InitListed ==
    /\ InitProgram
    /\ \A k \in HostIds : hosts[k].priority_weight = 10
    /\ env = {PatEnv(id) : id \in HostIds}
    /\ upstream \in {[NoUpstream EXCEPT !.avail = a] : a \in [HostIds -> ListedCollections]}
ListedTaskAvail(id) == TaskAvailed(id, Json(upstream.avail[id]))
ListedBookRequest ==
    /\ spc = "done"
    /\ \E k \in 1..Len(sres.slots) :
          BookRequest([start_time |-> sres.slots[k].start_time,
                       end_time |-> sres.slots[k].end_time,
                       name |-> TRUE, email |-> TRUE])
ListedBookAvail ==
    /\ bpc = "await_avail"
    /\ BookAvail(Json(upstream.avail[hosts[bk.i].host_id]))
NextListed ==
    \/ \E q \in JoinQueries : SlotsRequest(q)
    \/ \E id \in HostIds : TaskMe(id)
    \/ \E id \in HostIds : TaskList(id)
    \/ \E id \in HostIds : TaskQuery(id)
    \/ \E id \in HostIds : ListedTaskAvail(id)
    \/ SlotsJoin
    \/ ListedBookRequest
    \/ BookScan
    \/ BookResolve
    \/ BookMe
    \/ BookList
    \/ BookQuery
    \/ ListedBookAvail
    \/ BookVerified
    \/ BookPush
    \/ \E r \in {201, 409} : BookInvitee(r)
    \/ BookClose
SpecListed == InitListed /\ [][NextListed]_vars

\* ------------------------------------------- two requests after the same slot
\* Every host offers the one slot.  The provider lists a host's slot while nobody
\* holds it and accepts a reservation for it only then; a second booking request
\* verifies and reserves on its own schedule.
RaceStart == Tick(1)
RaceRequest ==
    [start_time |-> ProviderString(RaceStart),
     end_time |-> ProviderString(RaceStart + durationMinutes * MinuteMs),
     name |-> TRUE, email |-> TRUE]
RaceOffer == <<ProviderEntry(RaceStart, durationMinutes * MinuteMs)>>
Listing(h) == IF upstream.holder[h] = "none" THEN upstream.avail[h] ELSE <<>>
Accepts(r) == r >= 200 /\ r <= 299
InitRace ==
    /\ InitProgram
    /\ env = {PatEnv(id) : id \in HostIds}
    /\ upstream = [NoUpstream EXCEPT !.avail = [id \in HostIds |-> RaceOffer]]
RaceAvail ==
    /\ bpc = "await_avail"
    /\ \E j \in {Threw, Json(Listing(hosts[bk.i].host_id))} : BookAvail(j)
RaceInvitee(r) ==
    /\ InviteeAnswered(r)
    /\ IF Accepts(r)
       THEN /\ upstream.holder[bk.chosen] = "none"
            /\ upstream' = [upstream EXCEPT !.holder[bk.chosen] = "us"]
       ELSE UNCHANGED upstream
RivalVerify(h) ==
    /\ upstream.rival.pc = "idle"
    /\ Listing(h) # <<>>
    /\ upstream' = [upstream EXCEPT !.rival = [pc |-> "verified", host |-> h]]
    /\ UNCHANGED <<hosts, env, EVENT_TYPE_URI_CACHE, calls, bookVars, slotsVars>>
RivalReserve ==
    /\ upstream.rival.pc = "verified"
    /\ IF upstream.holder[upstream.rival.host] = "none"
       THEN upstream' = [upstream EXCEPT !.holder[upstream.rival.host] = "rival",
                                         !.rival.pc = "confirmed"]
       ELSE upstream' = [upstream EXCEPT !.rival.pc = "rejected"]
    /\ UNCHANGED <<hosts, env, EVENT_TYPE_URI_CACHE, calls, bookVars, slotsVars>>
NextRace ==
    \/ BookRequest(RaceRequest)
    \/ BookScan
    \/ BookResolve
    \/ BookMe
    \/ BookList
    \/ BookQuery
    \/ RaceAvail
    \/ BookVerified
    \/ BookPush
    \/ \E r \in {NetErr} \cup Statuses : RaceInvitee(r)
    \/ \E linkRes \in {NetErr} \cup Statuses : BookLink(linkRes)
    \/ \E h \in HostIds : RivalVerify(h)
    \/ RivalReserve
SpecRace == InitRace /\ [][NextRace]_vars

\* ===================================================================== claims
WellFormed(req) ==
    /\ req.name /\ req.email
    /\ ~isNaN(getTime(req.start_time))
    /\ ~isNaN(getTime(req.end_time))
Reservations == CallsTo(calls, "event_invitees")
Links == CallsTo(calls, "scheduling_links")

\* C1: a booking request in which no host is verified to offer the exact slot
\* ends with 409, and no reservation and no fallback link is requested for it.
C1_NoEligibleIsConflict ==
    (bpc = "done" /\ WellFormed(breq) /\ Len(bk.eligible) = 0)
        => (bres.status = 409 /\ Reservations = {} /\ Links = {})

\* C2: the host the direct reservation goes to is one of the eligible hosts, each
\* of which hostHasExactSlot accepted in this request, and no eligible host has
\* a larger priority weight.
C2_ChosenIsTopEligible ==
    /\ (bk.ret = "push" /\ bpc \in {"resolve", "await_me", "await_list", "push"})
            => bk.hasExact = "true"
    /\ \A c \in Reservations :
         \E k \in 1..Len(bk.eligible) :
            /\ bk.eligible[k].pat_env = c.token
            /\ bk.eligible[k].et = c.arg[1]
            /\ bk.eligible[k].host_id = bk.chosen
            /\ \A m \in 1..Len(bk.eligible) :
                  bk.eligible[m].priority_weight <= bk.eligible[k].priority_weight
C2_Witness ==
    /\ bpc = "await_invitee"
    /\ Len(bk.eligible) = 2
    /\ hosts[1].priority_weight = 5
    /\ hosts[2].priority_weight = 10
    /\ bk.chosen = 2

\* C3: a reservation rejected with 403, 404 or 422 is followed by exactly one
\* link-creation request, for the chosen host's event type; after any other
\* rejection there is none and the request ends with 502.
C3_FallbackOnDesignatedOnly ==
    /\ bk.r \in {403, 404, 422} =>
         /\ CountCalls(calls, "scheduling_links") = 1
         /\ \A c \in Links : /\ c.arg[1] = bk.eligible[1].et
                             /\ c.token = bk.eligible[1].pat_env
                             /\ bk.eligible[1].host_id = bk.chosen
    /\ bk.r \notin {403, 404, 422} => Links = {}
    /\ (bk.r \in Statuses /\ ~(bk.r >= 200 /\ bk.r <= 299) /\ bk.r \notin {403, 404, 422})
         => (bpc = "done" /\ bres.status = 502)
C3_Witness ==
    /\ bpc = "done"
    /\ bk.r = 422
    /\ bres.kind = "redirect"
    /\ CountCalls(calls, "scheduling_links") = 1

\* C4: hostHasExactSlot never lets a failure out: a missing credential, a failed
\* resolution or a failed availability query makes it answer false.
C4_FailsClosed == bk.hasExact # "throw"

\* C5: hostHasExactSlot answers true only when the answer it scanned has an entry
\* whose start and end are the requested instants.
ExactEntry(e, req) ==
    /\ ~isNaN(getTime(e.start_time))
    /\ ~isNaN(getTime(e.end_time))
    /\ getTime(e.start_time) = getTime(req.start_time)
    /\ getTime(e.end_time) = getTime(req.end_time)
Overlaps(e, req) ==
    /\ ~isNaN(getTime(e.end_time))
    /\ getTime(e.start_time) < getTime(req.end_time)
    /\ getTime(e.end_time) > getTime(req.start_time)
C5_TrueOnlyOnExactEntry ==
    /\ bk.hasExact = "true" =>
         (~bk.j.threw /\ \E k \in 1..Len(bk.j.json) : ExactEntry(bk.j.json[k], breq))
    /\ bpc = "push" => bk.hasExact = "true"
C5_Witness ==
    /\ bpc = "verified"
    /\ bk.hasExact = "false"
    /\ ~bk.j.threw
    /\ \E k \in 1..Len(bk.j.json) : Overlaps(bk.j.json[k], breq)

\* ---- aggregation: the answer of GET /api/slots
Answered == spc = "done" /\ sk # NoWindow
Ids(entry) == {entry.hosts[k].id : k \in 1..Len(entry.hosts)}
SlotOf(entry, start, minutes) ==
    /\ getTime(entry.start_time) = getTime(start)
    /\ getTime(entry.end_time) = getTime(start) + minutes * 60000
Fulfilled == {id \in HostIds : tasks[id].pc = "fulfilled"}
Rejected == {id \in HostIds : tasks[id].pc = "rejected"}

\* C6: whichever hosts fail, the aggregate call answers; its result has every
\* slot each other host reported, and a failing host is in no slot's hosts.
C6_Isolation ==
    Answered =>
        /\ sres.status = 200
        /\ \A id \in Fulfilled : \A k \in 1..Len(tasks[id].data) :
              \E n \in 1..Len(sres.slots) :
                 /\ SlotOf(sres.slots[n], tasks[id].data[k], 30)
                 /\ id \in Ids(sres.slots[n])
        /\ \A id \in Rejected : \A n \in 1..Len(sres.slots) : id \notin Ids(sres.slots[n])
C6_Witness ==
    /\ Answered
    /\ tasks[1].pc = "rejected"
    /\ tasks[2].pc = "fulfilled"
    /\ Len(tasks[2].data) = 2
    /\ Len(sres.slots) = 2

\* C7: no two entries of a result have the same start and end, and the entry of
\* a slot names every host that reported it.
C7_Union ==
    Answered =>
        /\ \A a, b \in 1..Len(sres.slots) :
              (/\ getTime(sres.slots[a].start_time) = getTime(sres.slots[b].start_time)
               /\ getTime(sres.slots[a].end_time) = getTime(sres.slots[b].end_time))
                 => a = b
        /\ \A n \in 1..Len(sres.slots) :
              \A id \in Fulfilled :
                 (\E k \in 1..Len(tasks[id].data) :
                     getTime(tasks[id].data[k]) = getTime(sres.slots[n].start_time))
                   => id \in Ids(sres.slots[n])
C7_Witness ==
    /\ Answered
    /\ Len(sres.slots) = 1
    /\ Ids(sres.slots[1]) = {1, 2}
    /\ Len(sres.slots[1].hosts) = 2

\* C8: in every entry of a result no host id occurs twice.
C8_HostsDeduplicated ==
    \A n \in 1..Len(sres.slots) :
       \A a, b \in 1..Len(sres.slots[n].hosts) :
          sres.slots[n].hosts[a].id = sres.slots[n].hosts[b].id => a = b

\* C9: a result is in non-decreasing order of start instant.
C9_Ordered ==
    \A n \in 1..Len(sres.slots) - 1 :
       getTime(sres.slots[n].start_time) <= getTime(sres.slots[n + 1].start_time)
C9_Witness ==
    /\ Answered
    /\ Len(sres.slots) = 2
    /\ tasks[1].pc = "fulfilled"
    /\ tasks[2].pc = "fulfilled"
    /\ Len(tasks[1].data) = 1
    /\ Len(tasks[2].data) = 1
    /\ getTime(tasks[1].data[1]) > getTime(tasks[2].data[1])
    /\ sres.slots # mergeResults(allSettledResults)

\* C10: the window handed to getUnionSlots starts at the later of the raw start
\* and now + 1 minute and ends at the earlier of the raw end and 7 days after
\* that start; so it starts no earlier than now + 1 minute, is at most 7 days
\* long, and ends after it starts.
WindowPassed == spc \in {"await_all", "done"} /\ sk # NoWindow
Later(a, b) == IF a >= b THEN a ELSE b
Earlier(a, b) == IF a <= b THEN a ELSE b
C10_Window ==
    WindowPassed =>
        LET rawStart == getTime(sreq.start)
            rawEnd == getTime(sreq.end)
            start == getTime(sk.start)
            end == getTime(sk.end)
        IN /\ ~isNaN(rawStart) /\ ~isNaN(rawEnd)
           /\ start = Later(rawStart, sreq.now + 60000)
           /\ end = Earlier(rawEnd, start + 604800000)
           /\ start >= sreq.now + 60000
           /\ end - start <= 604800000
           /\ end > start
C10_Witness ==
    /\ spc = "await_all"
    /\ getTime(sreq.start) < sreq.now + 60000
    /\ getTime(sreq.end) > getTime(sk.start) + 604800000
    /\ getTime(sk.end) = sreq.now + 60000 + 604800000

\* C11: the handler answers 400 exactly when a bound does not parse or the
\* clamped window is empty or inverted; then getUnionSlots is not started and
\* no upstream request is issued.
C11_Rejects(q) ==
    \/ isNaN(getTime(q.start))
    \/ isNaN(getTime(q.end))
    \/ Earlier(getTime(q.end), Later(getTime(q.start), q.now + 60000) + 604800000)
         <= Later(getTime(q.start), q.now + 60000)
C11_FailsIffInvalid ==
    spc \in {"await_all", "done"} =>
        /\ C11_Rejects(sreq) <=> (spc = "done" /\ sres.status = 400)
        /\ C11_Rejects(sreq) =>
              /\ calls = EmptyBag
              /\ sk = NoWindow
              /\ \A id \in HostIds : tasks[id] = IdleTask
        /\ ~C11_Rejects(sreq) => sres.status \in {0, 200}
C11_Witness ==
    /\ spc = "done"
    /\ sres.status = 400
    /\ ~isNaN(getTime(sreq.start))
    /\ ~isNaN(getTime(sreq.end))
    /\ getTime(sreq.end) = sreq.now + 60000
    /\ getTime(sreq.start) < sreq.now + 60000
    /\ env # {}

\* C13: a booking request is answered once, with a confirmed booking, a
\* redirect or an error. A confirmed booking follows a 2xx answer to the direct
\* reservation and no scheduling link was requested; a redirect follows a
\* 403/404/422 answer to the reservation and a 2xx answer to the scheduling
\* link; both carry the display name of the host the reservation was sent to.
C13_AttemptedHost == {k \in HostIds : \E c \in Reservations : c.token = PatEnv(k)}
C13_OneOutcome ==
    /\ bpc # "done" => bres = NoResponse
    /\ bpc = "done" =>
        /\ bres.kind \in {"booking", "redirect", "error"}
        /\ bres.kind = "error" <=> bres.status \in {400, 409, 500, 502}
        /\ bres.kind = "booking" =>
              /\ bres.status = 200
              /\ bk.r >= 200 /\ bk.r <= 299
              /\ Links = {}
              /\ CountCalls(calls, "event_invitees") = 1
              /\ \E k \in C13_AttemptedHost : bres.host_assigned = DisplayName(k)
        /\ bres.kind = "redirect" =>
              /\ bres.status = 200
              /\ bk.r \in {403, 404, 422}
              /\ bk.linkRes >= 200 /\ bk.linkRes <= 299
              /\ CountCalls(calls, "event_invitees") = 1
              /\ CountCalls(calls, "scheduling_links") = 1
              /\ \E k \in C13_AttemptedHost : bres.host_assigned = DisplayName(k)
        /\ bres.kind = "error" => bres.host_assigned = Missing
C13_Witness ==
    /\ bpc = "done"
    /\ bres.kind = "redirect"
    /\ bk.r = 422
    /\ bk.linkRes = 201
    /\ Len(bk.eligible) = 2
    /\ bres.host_assigned = DisplayName(2)

\* C14: a request sends at most one direct reservation and at most one
\* scheduling-link request, both with the credential of the top-priority
\* eligible host; after a rejection no other eligible host is tried and no
\* upstream request is repeated.
C14_Top(k) ==
    /\ \E p \in 1..Len(bk.eligible) : bk.eligible[p].host_id = k
    /\ \A p \in 1..Len(bk.eligible) :
          bk.eligible[p].priority_weight <= hosts[k].priority_weight
C14_SingleAttempt ==
    /\ CountCalls(calls, "event_invitees") <= 1
    /\ CountCalls(calls, "scheduling_links") <= 1
    /\ \A c \in Reservations \cup Links :
          \E k \in HostIds : c.token = PatEnv(k) /\ C14_Top(k)
    /\ \A c \in Reservations \cup Links : CopiesIn(c, calls) = 1
    /\ Links # {} => Reservations # {} /\ bk.r \in {403, 404, 422}
C14_Witness ==
    /\ bpc = "done"
    /\ bres.status = 502
    /\ bk.r = 409
    /\ Len(bk.eligible) = 2
    /\ hosts[1].priority_weight < hosts[2].priority_weight
    /\ CountCalls(calls, "event_invitees") = 1
    /\ \A c \in Reservations : c.token = PatEnv(2)

\* C17: when several eligible hosts share the highest priority weight, the
\* reservation goes to the one that comes first in the roster.
C17_TopIds ==
    {k \in HostIds : /\ \E p \in 1..Len(bk.eligible) : bk.eligible[p].host_id = k
                     /\ \A p \in 1..Len(bk.eligible) :
                           bk.eligible[p].priority_weight <= hosts[k].priority_weight}
C17_TieGoesToFirst ==
    \A c \in Reservations :
        /\ C17_TopIds # {}
        /\ c.token = PatEnv(CHOOSE k \in C17_TopIds : \A m \in C17_TopIds : k <= m)
C17_Witness ==
    /\ bpc = "await_invitee"
    /\ Len(bk.eligible) = 2
    /\ hosts[1].priority_weight = hosts[2].priority_weight
    /\ \A c \in Reservations : c.token = PatEnv(1)
    /\ Reservations # {}

\* C18: a request without start time, end time, invitee name or invitee email
\* is answered 400 in the step that receives it: no host is verified, no
\* upstream request is issued and the cache keeps its content.
C18_Missing(req) ==
    req.start_time = <<>> \/ req.end_time = <<>> \/ ~req.name \/ ~req.email
C18_ValidationFirst ==
    [][(bpc = "idle" /\ bpc' # "idle" /\ C18_Missing(breq')) =>
          /\ bpc' = "done"
          /\ bres'.status = 400
          /\ bk' = NoLocals
          /\ calls' = EmptyBag
          /\ EVENT_TYPE_URI_CACHE' = EVENT_TYPE_URI_CACHE]_vars
C18_Witness ==
    /\ bpc = "done"
    /\ bres.status = 400
    /\ breq.start_time # Missing
    /\ breq.end_time # Missing
    /\ breq.email
    /\ ~breq.name
    /\ has(EVENT_TYPE_URI_CACHE, 1)
    /\ calls = EmptyBag

\* C20: the cache is written only by a resolution that found, in the provider's
\* event type list for the host, the entry whose scheduling URL is the host's:
\* the stored value is that entry's identifier. A resolution that fails leaves
\* the cache as it was, and a resolution that finds no cached value for a host
\* with a credential queries the provider again.
C20_Resolved == hosts[bk.i].host_id
C20_Write ==
    EVENT_TYPE_URI_CACHE' # EVENT_TYPE_URI_CACHE =>
        (/\ bpc = "await_list"
         /\ bpc' \in {"have_et", "push"}
         /\ DOMAIN EVENT_TYPE_URI_CACHE' = DOMAIN EVENT_TYPE_URI_CACHE \cup {C20_Resolved}
         /\ \A k \in DOMAIN EVENT_TYPE_URI_CACHE \ {C20_Resolved} :
               EVENT_TYPE_URI_CACHE'[k] = EVENT_TYPE_URI_CACHE[k])
C20_Failure ==
    (bpc \in {"resolve", "await_me", "await_list"} /\ bpc' = "done") =>
        (/\ bres'.status = 500
         /\ EVENT_TYPE_URI_CACHE' = EVENT_TYPE_URI_CACHE)
C20_QueriesAgain ==
    (/\ bpc = "resolve"
     /\ C20_Resolved \notin DOMAIN EVENT_TYPE_URI_CACHE
     /\ PatEnv(C20_Resolved) \in env) =>
        (/\ bpc' = "await_me"
         /\ CountCalls(calls', "users/me") = CountCalls(calls, "users/me") + 1)
C20_WriteOnMatchOnly ==
    /\ [](\A k \in DOMAIN EVENT_TYPE_URI_CACHE :
             /\ k \in HostIds
             /\ EVENT_TYPE_URI_CACHE[k] = <<"https://api.calendly.com/event_types", k>>)
    /\ [][C20_Write /\ C20_Failure /\ C20_QueriesAgain]_vars
\* a resolution for host 2 failed after the provider was asked: the cache
\* holds nothing for host 2 and keeps what an earlier request stored for host 1
C20_Witness ==
    /\ bpc = "done"
    /\ bres.status = 500
    /\ bk.i = 2
    /\ bk.hasExact = "throw"
    /\ CountCalls(calls, "event_types") = 1
    /\ CountCalls(calls, "users/me") = 1
    /\ ~has(EVENT_TYPE_URI_CACHE, 2)
    /\ has(EVENT_TYPE_URI_CACHE, 1)

\* C15: the per-host tasks of one aggregation advance independently of each
\* other; the aggregation answers only when every task is fulfilled or
\* rejected, a rejection does not end the wait for the others, and once the
\* provider has answered every task the aggregation does answer.
C15_AllSettled == \A id \in HostIds : tasks[id].pc \in {"fulfilled", "rejected"}
C15_FanOutFanIn ==
    /\ []((spc = "done" /\ sk # NoWindow) => C15_AllSettled)
    /\ []((spc = "await_all" /\ ~C15_AllSettled) => sres = NoSlotsResponse)
    /\ (spc = "await_all") ~> (spc = "done" /\ sres.status = 200 /\ C15_AllSettled)
\* host 1 was rejected while host 2 still waits for its availability answer,
\* and the aggregation has not answered
C15_Witness ==
    /\ spc = "await_all"
    /\ tasks[1].pc = "rejected"
    /\ tasks[2].pc = "await_avail"
    /\ sres = NoSlotsResponse

\* C16: a cache entry, once written, keeps its value: resolutions of one host
\* that are in flight together all write the same value, which is the value
\* each of them returns, so the cache ends as one resolution alone leaves it.
C16_Kept ==
    \A k \in DOMAIN EVENT_TYPE_URI_CACHE :
        /\ k \in DOMAIN EVENT_TYPE_URI_CACHE'
        /\ EVENT_TYPE_URI_CACHE'[k] = EVENT_TYPE_URI_CACHE[k]
C16_AppendOnly ==
    /\ [][C16_Kept]_vars
    /\ [](\A k \in HostIds :
            /\ tasks[k].et # Missing =>
                  (has(EVENT_TYPE_URI_CACHE, k) /\ EVENT_TYPE_URI_CACHE[k] = tasks[k].et)
            /\ (bpc \in {"have_et", "push"} /\ bk.i = k) =>
                  (has(EVENT_TYPE_URI_CACHE, k) /\ EVENT_TYPE_URI_CACHE[k] = bk.et)
            /\ \A p \in 1..Len(bk.eligible) :
                  bk.eligible[p].host_id = k =>
                      (has(EVENT_TYPE_URI_CACHE, k)
                       /\ EVENT_TYPE_URI_CACHE[k] = bk.eligible[p].et)
            /\ has(EVENT_TYPE_URI_CACHE, k) =>
                  EVENT_TYPE_URI_CACHE[k] = <<"https://api.calendly.com/event_types", k>>)
\* the booking request and the aggregation both listed host 1's event types
\* before either had written the cache, and both have written it since
C16_Witness ==
    /\ CopiesIn(Call("event_types", hosts[1], UserUri(1)), calls) = 2
    /\ tasks[1].pc = "have_et"
    /\ bpc = "have_et"
    /\ bk.i = 1
    /\ has(EVENT_TYPE_URI_CACHE, 1)
    /\ ~has(EVENT_TYPE_URI_CACHE, 2)

\* C19: a slot (start, start + 30 minutes) that the aggregation lists with
\* host h is, with the provider's availability unchanged, a slot for which the
\* verification of host h answers true, whatever end the provider reports.
C19_Listed(h) ==
    \E k \in 1..Len(sres.slots) :
        /\ sres.slots[k].start_time = breq.start_time
        /\ sres.slots[k].end_time = breq.end_time
        /\ getTime(sres.slots[k].end_time) = getTime(sres.slots[k].start_time) + 30 * 60000
        /\ \E p \in 1..Len(sres.slots[k].hosts) : sres.slots[k].hosts[p].id = h
C19_RoundTrip ==
    (spc = "done" /\ bpc = "verified" /\ C19_Listed(hosts[bk.i].host_id))
        => bk.hasExact = "true"

\* C12: of two booking requests after the same slot of one host, each of which
\* verified the slot before reserving it, at most one is answered with a
\* confirmed booking for that host; the request modelled in full is confirmed
\* only when the provider gave the slot to it.
C12_Confirmed(h) == bpc = "done" /\ bres.kind = "booking" /\ bk.chosen = h
====
